---- MODULE Spec2Model ----
(***************************************************************************)
(* Model of the dialogue orchestration loop of watson-online-store         *)
(* (src/watsononlinestore/watson_online_store.py): WatsonOnlineStore.run,  *)
(* handle_message and the handlers it dispatches to.                       *)
(*                                                                         *)
(* Representation of Python values:                                       *)
(*   - a str is a string; a character is a string of length one;          *)
(*   - a value stored in the context is tagged with its Python type:      *)
(*     Str(s) for a str, List(l) for a list;                               *)
(*   - a dict is a function from key names to values;                     *)
(*   - None is the record None.                                            *)
(***************************************************************************)
EXTENDS Integers, Sequences, FiniteSets, TLC

VARIABLES
    pc,                      \* position of run(): "poll" (rtm_read), "resolve"
                             \* (init_customer), "engine" (the dialogue turn of
                             \* handle_message), "dispatch" (its flag checks),
                             \* "crashed" (left by an exception)
    context,                 \* self.context
    customer,                \* self.customer
    response_tuple,          \* self.response_tuple
    discovery_client,        \* self.discovery_client is configured (truthy)
    discovery_score_filter,  \* self.discovery_score_filter, in hundredths
    db,                      \* the customer datastore (cloudant_online_store)
    message,                 \* run(): message held by the loop
    channel,                 \* run(): channel held by the loop
    user,                    \* run(): author of the held message
    last,                    \* observation: what the most recent step did
                             \* (an iteration of run() that reads nothing addressed
                             \* to the bot and resolves no customer is no step)
    ops,                     \* observation: datastore calls of the most recent step
    turns,                   \* number of dialogue turns taken so far
    sent,                    \* observation: the message text and the channel of
                             \* the latest dialogue turn of the running chain
    reply,                   \* observation: what the collaborator called by the
                             \* most recent step answered (the dialogue engine's
                             \* response, the search service's answer)
    resolved,                \* history: the identities init_customer was called for
    call                     \* a call of a pure function: its name, its arguments
                             \* and, once applied, its result (FnSpec only)

vars == <<pc, context, customer, response_tuple, discovery_client,
          discovery_score_filter, db, message, channel, user, last, ops,
          turns, sent, reply, resolved, call>>

(***************************************************************************)
(* Bounds of the model.                                                    *)
(***************************************************************************)
\* dialogue turns (calls of handle_message) explored in one session
MaxTurns == 3
\* events in one batch returned by rtm_read
MaxBatch == 2
\* line items a stored cart may grow to
MaxCart == 2
\* raw results in one answer of the search service handed to the formatter
MaxResults == 6
\* raw results in one answer of the search service handed to the score filter
MaxScored == 4

(***************************************************************************)
(* Python values.                                                          *)
(***************************************************************************)
None == [t |-> "none"]

\* s[i] for a 0-based index i of the str s
CharAt(s, i) == SubSeq(s, i + 1, i + 1)

Str(s) == [t |-> "str", v |-> s]

List(l) == [t |-> "list", v |-> l]

EmptyDict == [k \in {} |-> None]

\* bool(value) of a str or a list: empty is falsy
Truthy(val) ==
    /\ val # None
    /\ IF val.t = "str" THEN val.v # "" ELSE val.v # << >>

DigitChars == "0123456789"

IsDigit(c) == \E d \in 0..9 : CharAt(DigitChars, d) = c

DigitValue(c) == CHOOSE d \in 0..9 : CharAt(DigitChars, d) = c

\* str(n) for n >= 0
RECURSIVE PyStr(_)
PyStr(n) ==
    IF n < 10 THEN CharAt(DigitChars, n)
    ELSE PyStr(n \div 10) \o CharAt(DigitChars, n % 10)

\* the control characters '\x0b', '\x1c', '\x1d', '\x1e' and '\x1f'
VT == ""

FS == ""

GS == ""

RS == ""

US == ""

\* the characters str.strip() drops, among the ASCII characters
Whitespace == {" ", "\t", "\n", "\r", "\f", VT, FS, GS, RS, US}

\* the characters int() skips around the number, among the ASCII characters
IntWhitespace == {" ", "\t", "\n", "\r", "\f", VT}

\* s without the characters of ws at its head
RECURSIVE LStripIn(_, _)
LStripIn(s, ws) ==
    IF s # "" /\ Head(s) \in ws THEN LStripIn(Tail(s), ws) ELSE s

\* s without the characters of ws at its end
RECURSIVE RStripIn(_, _)
RStripIn(s, ws) ==
    IF s # "" /\ CharAt(s, Len(s) - 1) \in ws
    THEN RStripIn(SubSeq(s, 1, Len(s) - 1), ws) ELSE s

\* str.lstrip()
LStrip(s) == LStripIn(s, Whitespace)

\* str.rstrip()
RStrip(s) == RStripIn(s, Whitespace)

\* str.strip(): drop leading and trailing whitespace
Strip(s) == RStrip(LStrip(s))

RECURSIVE DigitsValue(_)
DigitsValue(s) ==
    IF s = "" THEN 0
    ELSE 10 * DigitsValue(SubSeq(s, 1, Len(s) - 1))
         + DigitValue(CharAt(s, Len(s) - 1))

\* s without its underscores
RECURSIVE WithoutUnderscores(_)
WithoutUnderscores(s) ==
    IF s = "" THEN ""
    ELSE (IF Head(s) = "_" THEN "" ELSE Head(s)) \o WithoutUnderscores(Tail(s))

\* int(s) of a str: surrounding whitespace (IntWhitespace, a smaller set than
\* the one str.strip() drops) and one sign are accepted, then
\* one or more digits, with single underscores allowed between two digits;
\* anything else raises ValueError
PyInt(s) ==
    LET b == RStripIn(LStripIn(s, IntWhitespace), IntWhitespace)
        signed == b # "" /\ Head(b) \in {"+", "-"}
        body == IF signed THEN Tail(b) ELSE b
        digits == WithoutUnderscores(body)
        grouped ==
            /\ body # ""
            /\ \A i \in 0..(Len(body) - 1) :
                  \/ IsDigit(CharAt(body, i))
                  \/ /\ CharAt(body, i) = "_"
                     /\ 0 < i /\ i < Len(body) - 1
                     /\ IsDigit(CharAt(body, i - 1))
                     /\ IsDigit(CharAt(body, i + 1))
    IN  IF grouped
        THEN [ok |-> TRUE,
              n |-> IF signed /\ Head(b) = "-" THEN 0 - DigitsValue(digits)
                    ELSE DigitsValue(digits)]
        ELSE [ok |-> FALSE, n |-> 0]

\* s[i:i+len(sub)] == sub, for a 0-based index i
MatchAt(s, sub, i) ==
    i + Len(sub) <= Len(s) /\ SubSeq(s, i + 1, i + Len(sub)) = sub

\* s.find(sub, start): 0-based index of the first occurrence of the
\* substring at or after start, or -1
Find(s, sub, start) ==
    IF \E i \in start..(Len(s) - Len(sub)) : MatchAt(s, sub, i)
    THEN CHOOSE i \in start..(Len(s) - Len(sub)) :
            MatchAt(s, sub, i) /\ \A j \in start..(i - 1) : ~MatchAt(s, sub, j)
    ELSE 0 - 1

\* sub in s
Contains(s, sub) == Find(s, sub, 0) >= 0

(***************************************************************************)
(* Context Manager.                                                        *)
(***************************************************************************)
\* context_merge that keeps dict1's value of a key both dicts hold
context_merge_keep(dict1, dict2) ==
    IF dict2 = None \/ DOMAIN dict2 = {} THEN dict1
    ELSE [k \in DOMAIN dict1 \cup DOMAIN dict2 |->
            IF k \in DOMAIN dict1 THEN dict1[k] ELSE dict2[k]]

\* context_merge(dict1, dict2): copy of dict1 updated with dict2 when dict2
\* is truthy (neither None nor empty)
context_merge(dict1, dict2) ==
    IF dict2 = None \/ DOMAIN dict2 = {} THEN dict1
    ELSE [k \in DOMAIN dict1 \cup DOMAIN dict2 |->
            IF k \in DOMAIN dict2 THEN dict2[k] ELSE dict1[k]]

\* d[k] = val on a dict (item assignment)
SetItem(d, k, val) == [x \in DOMAIN d \cup {k} |-> IF x = k THEN val ELSE d[x]]

\* 'k' in d and d[k] == s, for a str s
KeyIs(d, k, s) == k \in DOMAIN d /\ d[k] = Str(s)

(***************************************************************************)
(* Words the code compares context values with.                            *)
(***************************************************************************)
W_list == "list"

W_add == "add"

W_delete == "delete"

W_no == "no"

W_customer == "customer"

(***************************************************************************)
(* Chat identities and the transport.                                      *)
(***************************************************************************)
\* self.bot_id
bot_id == "B0"

\* self.at_bot = "<@" + bot_id + ">"
at_bot == "<@" \o bot_id \o ">"

EmailA == "a@x"

EmailB == "b@x"

\* the profile users.info reports for a chat identity
Profile(u) ==
    IF u = "U1"
    THEN [email |-> EmailA, first_name |-> "Al", last_name |-> "Ay"]
    ELSE [email |-> EmailB, first_name |-> "Bo", last_name |-> "Be"]

UpperChars == "ABCDEFGHIJKLMNOPQRSTUVWXYZ"

LowerChars == "abcdefghijklmnopqrstuvwxyz"

\* the small letter of every capital letter
LowerOf ==
    [c \in {CharAt(UpperChars, i) : i \in 0..(Len(UpperChars) - 1)} |->
        CharAt(LowerChars,
               CHOOSE i \in 0..(Len(UpperChars) - 1) : CharAt(UpperChars, i) = c)]

\* str.lower() of one character: a capital letter becomes the small one
Lower(c) == IF c \in DOMAIN LowerOf THEN LowerOf[c] ELSE c

\* s.split(sep) for a non-empty sep: the pieces between the occurrences of
\* sep, found from left to right without overlap
RECURSIVE Split(_, _)
Split(s, sep) ==
    IF Find(s, sep, 0) < 0 THEN <<s>>
    ELSE <<SubSeq(s, 1, Find(s, sep, 0))>>
         \o Split(SubSeq(s, Find(s, sep, 0) + Len(sep) + 1, Len(s)), sep)

\* ''.join(pieces)
RECURSIVE Join(_)
Join(pieces) ==
    IF pieces = << >> THEN "" ELSE Head(pieces) \o Join(Tail(pieces))

\* ''.join(text.split(at_bot)): the text without the occurrences of at_bot
RemoveAt(s) == Join(Split(s, at_bot))

\* str.lower()
RECURSIVE LowerAll(_)
LowerAll(s) == IF s = "" THEN "" ELSE Lower(Head(s)) \o LowerAll(Tail(s))

\* channel.startswith('D')
StartsWithD(c) == MatchAt(c, "D", 0)

\* the events rtm_read may deliver; an event is a dict
EvMention ==
    [text |-> at_bot \o " Hi", user |-> "U1",
     channel |-> "C1"]

EvDirect ==
    [text |-> "Ok ", user |-> "U2",
     channel |-> "D2"]

EvOwn ==
    [text |-> "yo", user |-> bot_id, channel |-> "D2"]

\* a mention and nothing else: the message is empty
EvBare ==
    [text |-> at_bot, user |-> "U2", channel |-> "C1"]

\* an event that carries a user_profile is skipped
EvJoin ==
    [text |-> at_bot \o "j", user |-> "U1", channel |-> "C1",
     user_profile |-> "p"]

Events == {EvMention, EvDirect, EvOwn, EvBare, EvJoin}

RECURSIVE SeqsUpTo(_, _)
SeqsUpTo(S, n) ==
    IF n = 0 THEN {<< >>}
    ELSE LET shorter == SeqsUpTo(S, n - 1)
         IN  shorter \cup {Append(q, e) : q \in shorter, e \in S}

\* what rtm_read may return
Batches == SeqsUpTo(Events, MaxBatch)

\* parse_slack_output that goes through the whole batch and returns the
\* last event addressed to the bot
RECURSIVE parse_slack_output_last(_)
parse_slack_output_last(output_list) ==
    IF output_list = << >> THEN <<None, None, None>>
    ELSE LET output == output_list[Len(output_list)]
             fields == DOMAIN output
             rest == SubSeq(output_list, 1, Len(output_list) - 1)
         IN  IF "text" \in fields /\ "user" \in fields
                /\ "user_profile" \notin fields
             THEN IF Contains(output.text, at_bot)
                  THEN <<Str(LowerAll(Strip(RemoveAt(output.text)))),
                         Str(output.channel), Str(output.user)>>
                  ELSE IF StartsWithD(output.channel) /\ output.user # bot_id
                  THEN <<Str(LowerAll(Strip(output.text))),
                         Str(output.channel), Str(output.user)>>
                  ELSE parse_slack_output_last(rest)
             ELSE parse_slack_output_last(rest)

\* parse_slack_output(output_list): the first event addressed to the bot as
\* (message, channel, user), or (None, None, None)
RECURSIVE parse_slack_output(_)
parse_slack_output(output_list) ==
    IF output_list = << >> THEN <<None, None, None>>
    ELSE LET output == Head(output_list)
             fields == DOMAIN output
         IN  IF "text" \in fields /\ "user" \in fields
                /\ "user_profile" \notin fields
             THEN IF Contains(output.text, at_bot)
                  THEN <<Str(LowerAll(Strip(RemoveAt(output.text)))),
                         Str(output.channel), Str(output.user)>>
                  ELSE IF StartsWithD(output.channel) /\ output.user # bot_id
                  THEN <<Str(LowerAll(Strip(output.text))),
                         Str(output.channel), Str(output.user)>>
                  ELSE parse_slack_output(Tail(output_list))
             ELSE parse_slack_output(Tail(output_list))

(***************************************************************************)
(* Customer records and the datastore collaborator.  The datastore is a    *)
(* dict from email to the stored customer document.                        *)
(***************************************************************************)
\* OnlineStoreCustomer(email, first_name, last_name, shopping_cart)
OnlineStoreCustomer(email, first_name, last_name, shopping_cart) ==
    [t |-> "obj", email |-> email, first_name |-> first_name,
     last_name |-> last_name, shopping_cart |-> shopping_cart]

\* OnlineStoreCustomer.get_customer_dict()
get_customer_dict(c) ==
    [type |-> Str(W_customer), email |-> Str(c.email),
     first_name |-> Str(c.first_name), last_name |-> Str(c.last_name),
     shopping_cart |-> List(c.shopping_cart)]

\* cloudant_online_store.find_customer(email): the stored document or None
find_customer(d, email) ==
    IF email \in DOMAIN d THEN d[email] ELSE None

\* cloudant_online_store.add_customer_obj(customer): create the document
add_customer_obj(d, c) ==
    [e \in DOMAIN d \cup {c.email} |->
        IF e = c.email
        THEN [email |-> c.email, first_name |-> c.first_name,
              last_name |-> c.last_name, shopping_cart |-> c.shopping_cart]
        ELSE d[e]]

\* cloudant_online_store.list_shopping_cart(email)
list_shopping_cart(d, email) ==
    IF email \in DOMAIN d THEN d[email].shopping_cart ELSE << >>

\* cloudant_online_store.add_to_shopping_cart(email, item): append the item
add_to_shopping_cart(d, email, item) ==
    IF email \in DOMAIN d
    THEN [d EXCEPT ![email].shopping_cart = Append(@, item)]
    ELSE d

\* list.remove(item): drop the first occurrence
RECURSIVE RemoveFirst(_, _)
RemoveFirst(l, item) ==
    IF l = << >> THEN << >>
    ELSE IF Head(l) = item THEN Tail(l)
    ELSE <<Head(l)>> \o RemoveFirst(Tail(l), item)

\* cloudant_online_store.delete_item_shopping_cart(email, item)
delete_item_shopping_cart(d, email, item) ==
    IF email \in DOMAIN d
    THEN [d EXCEPT ![email].shopping_cart = RemoveFirst(@, item)]
    ELSE d

\* customer_from_db(user_data): the bound customer built from a stored document
customer_from_db(user_data) ==
    OnlineStoreCustomer(user_data.email, user_data.first_name,
                        user_data.last_name, << >>)

\* create_user_from_ui(user_json): the bound customer built from the profile
create_user_from_ui(profile) ==
    OnlineStoreCustomer(profile.email, profile.first_name,
                        profile.last_name, << >>)

\* add_customer_to_context that replaces the context by the customer's dict
add_customer_as_context(ctx, c) == get_customer_dict(c)

\* add_customer_to_context(): the context with the customer's dict merged in
add_customer_to_context(ctx, c) == context_merge(ctx, get_customer_dict(c))

(***************************************************************************)
(* Result Formatter.                                                       *)
(***************************************************************************)
DISCOVERY_KEEP_COUNT == 5

href_tag == "/ProductDetail.aspx?pid="

img_tag == "<a class=\"jqzoom\" href=\""

product_tag == "Product:"

category_tag == "Category:"

url_start == "http://www.logostore-globalid.us"

\* the fixed head of the pattern r'scale\[[0-9]+\]'
SCALE == "scale["

Min(a, b) == IF a < b THEN a ELSE b

\* s[a:b] for 0 <= a
Slice(s, a, b) == SubSeq(s, a + 1, Min(b, Len(s)))

AMP == "&amp;"

LT == "&lt;"

GT == "&gt;"

\* s.replace(old, new) for a non-empty old: the occurrences of old, found
\* from left to right without overlap, become new
RECURSIVE Replace(_, _, _)
Replace(s, old, new) ==
    IF Find(s, old, 0) < 0 THEN s
    ELSE SubSeq(s, 1, Find(s, old, 0)) \o new
         \o Replace(SubSeq(s, Find(s, old, 0) + Len(old) + 1, Len(s)), old, new)

\* slack_encode(input_text): &, < and > are replaced, in that order
slack_encode(input_text) ==
    IF input_text = "" THEN input_text
    ELSE Replace(Replace(Replace(input_text, "&", AMP), "<", LT), ">", GT)

\* the replacement 'scale[50]'
SCALE50 == "scale[50]"

\* number of digits at the head of s
RECURSIVE DigitRun(_)
DigitRun(s) ==
    IF s # "" /\ IsDigit(Head(s)) THEN 1 + DigitRun(Tail(s)) ELSE 0

\* re.sub(r'scale\[[0-9]+\]', 'scale[50]', img)
RECURSIVE ShrinkScale(_)
ShrinkScale(img) ==
    IF img = "" THEN ""
    ELSE LET rest == SubSeq(img, Len(SCALE) + 1, Len(img))
             n == DigitRun(rest)
         IN  IF MatchAt(img, SCALE, 0) /\ n > 0 /\ Len(rest) > n
                /\ CharAt(rest, n) = "]"
             THEN SCALE50
                  \o ShrinkScale(SubSeq(rest, n + 2, Len(rest)))
             ELSE Head(img) \o ShrinkScale(Tail(img))

\* the product url scraped from result['html']
ProductUrl(result) ==
    IF "html" \notin DOMAIN result THEN ""
    ELSE LET html == result.html
             sidx == Find(html, href_tag, 0)
             product_id == Slice(html, sidx + Len(href_tag),
                                 sidx + Len(href_tag) + 6)
         IN  IF sidx > 0
             THEN url_start \o href_tag \o product_id
             ELSE ""

\* the image url scraped from result['html']
ImageUrl(result) ==
    IF "html" \notin DOMAIN result THEN ""
    ELSE LET html == result.html
             simg == Find(html, img_tag, 0)
             eimg == Find(html, "\"", simg + Len(img_tag))
         IN  IF simg > 0 /\ eimg > 0
             THEN ShrinkScale(Slice(html, simg + Len(img_tag), eimg))
             ELSE ""

\* the product name scraped from result['text']
ProductName(result) ==
    IF "text" \notin DOMAIN result THEN ""
    ELSE LET text == result.text
             sidx == Find(text, product_tag, 0)
             eidx == Find(text, category_tag, sidx + Len(product_tag))
         IN  IF sidx > 0 /\ eidx > 0
             THEN Slice(text, sidx + Len(product_tag), eidx - 1)
             ELSE ""

\* format_discovery_response that keeps every result
format_discovery_response_all(response) ==
    IF ~("results" \in DOMAIN response /\ response.results # << >>) THEN << >>
    ELSE LET results == response.results
         IN  [i \in 1..Len(results) |->
                [cart_number |-> PyStr(i),
                 name |-> slack_encode(ProductName(results[i])),
                 url |-> slack_encode(ProductUrl(results[i])),
                 image |-> slack_encode(ImageUrl(results[i]))]]

\* format_discovery_response(response): at most DISCOVERY_KEEP_COUNT records
format_discovery_response(response) ==
    IF ~("results" \in DOMAIN response /\ response.results # << >>) THEN << >>
    ELSE LET results == response.results
         IN  [i \in 1..Min(Len(results), DISCOVERY_KEEP_COUNT) |->
                [cart_number |-> PyStr(i),
                 name |-> slack_encode(ProductName(results[i])),
                 url |-> slack_encode(ProductUrl(results[i])),
                 image |-> slack_encode(ImageUrl(results[i]))]]

(***************************************************************************)
(* Search Dispatch.                                                        *)
(***************************************************************************)
\* ScoreFilter that also keeps the results scoring exactly f
RECURSIVE ScoreFilterAtLeast(_, _)
ScoreFilterAtLeast(l, f) ==
    IF l = << >> THEN << >>
    ELSE (IF "score" \in DOMAIN Head(l) /\ Head(l).score >= f
          THEN <<Head(l)>> ELSE << >>) \o ScoreFilterAtLeast(Tail(l), f)

\* [x for x in l if 'score' in x and x['score'] > f]
RECURSIVE ScoreFilter(_, _)
ScoreFilter(l, f) ==
    IF l = << >> THEN << >>
    ELSE (IF "score" \in DOMAIN Head(l) /\ Head(l).score > f
          THEN <<Head(l)>> ELSE << >>) \o ScoreFilter(Tail(l), f)

\* get_discovery_response: the response after the score filter
FilteredResponse(discovery_response, filter) ==
    IF filter # 0 /\ "results" \in DOMAIN discovery_response
    THEN LET fr == ScoreFilter(discovery_response.results, filter)
         IN  [k \in DOMAIN discovery_response \cup {"matching_results"} |->
                CASE k = "matching_results" -> Len(fr)
                  [] k = "results" -> fr
                  [] OTHER -> discovery_response[k]]
    ELSE discovery_response

\* get_discovery_response: the concatenation of the formatted entries
RECURSIVE FormattedResponse(_)
FormattedResponse(response) ==
    IF response = << >> THEN ""
    ELSE LET item == Head(response)
         IN  "\n" \o item.cart_number \o ") " \o item.name
             \o "\n" \o item.image \o FormattedResponse(Tail(response))

\* get_discovery_response(input_text) on the service's answer: the value
\* stored in self.response_tuple and the fragment returned
get_discovery_response(discovery_response, filter) ==
    LET response == format_discovery_response(
                        FilteredResponse(discovery_response, filter))
    IN  [response_tuple |-> response,
         fragment |-> [discovery_result |-> Str(FormattedResponse(response))]]

(***************************************************************************)
(* The environment: what the collaborators may answer.                     *)
(***************************************************************************)
RawA ==
    [html |-> "<" \o href_tag \o "123456>" \o img_tag
              \o "iscale[9]\"",
     text |-> "x" \o product_tag \o "A& " \o category_tag,
     score |-> 90]

RawB ==
    [html |-> "<" \o href_tag \o "77>",
     text |-> "x" \o product_tag \o "B " \o category_tag,
     score |-> 30]

\* what discovery_client.query may return
QueryResponses ==
    {[results |-> << >>, matching_results |-> 0],
     [results |-> <<RawA>>, matching_results |-> 1],
     [results |-> <<RawB, RawA>>, matching_results |-> 2],
     [matching_results |-> 0]}

\* repr(e) of the exception a failed query raises
ReprError == "Err"

\* a query that raises instead of returning
QueryRaises == [exception |-> ReprError]

\* what the call of discovery_client.query may do
QueryAnswers == QueryResponses \cup {QueryRaises}

\* FAKE_DISCOVERY: the canned responses used without a search client
FAKE_DISCOVERY == <<"fake 0", "fake 1">>

\* the values random.randint(0, len(FAKE_DISCOVERY)-1) may draw
FakeAnswers == {[index |-> i] : i \in 0..(Len(FAKE_DISCOVERY) - 1)}

\* get_fake_discovery_response(input_text), index being the value drawn
get_fake_discovery_response(index) ==
    [discovery_result |-> Str(FAKE_DISCOVERY[index + 1])]

\* a line item as handle_add_to_cart builds it from a formatted record
CartLine(entry) == entry.name \o ": " \o entry.url \o "\n"

\* the datastore when the session starts: the first identity is a known
\* customer with a stored cart, the second is unknown
InitialCart ==
    <<CartLine(format_discovery_response([results |-> <<RawB>>])[1])>>

InitialDb ==
    [e \in {EmailA} |->
        [email |-> EmailA, first_name |-> "Al", last_name |-> "Ay",
         shopping_cart |-> InitialCart]]

\* the cart_item values the dialogue engine may set
Ranks == {"x", "0", "1", "\t2"}

\* the (shopping_cart, cart_item) settings the dialogue engine may return
CartFlags ==
    {EmptyDict,
     [shopping_cart |-> Str(""), cart_item |-> Str("")],
     [shopping_cart |-> Str(W_list)],
     [shopping_cart |-> Str(W_add)],
     [shopping_cart |-> Str(W_delete)],
     [shopping_cart |-> Str(W_add), cart_item |-> Str("")],
     [shopping_cart |-> Str(W_delete), cart_item |-> Str("")]}
    \cup {[shopping_cart |-> Str(w), cart_item |-> Str(r)] :
            w \in {W_add, W_delete}, r \in Ranks}

SearchFlags == {EmptyDict, [discovery_string |-> Str("q")]}

\* the flag settings of one dialogue-engine answer
Fragments ==
    {context_merge(a, b) : a \in SearchFlags, b \in CartFlags}
    \cup {context_merge(b, [get_input |-> Str(W_no)]) :
            b \in {EmptyDict, [shopping_cart |-> Str(W_list)],
                   [shopping_cart |-> Str(W_add), cart_item |-> Str("1")],
                   [shopping_cart |-> Str(W_delete), cart_item |-> Str("")]}}
    \cup {[discovery_string |-> Str("")],
          [discovery_string |-> Str(""), shopping_cart |-> Str(W_list)]}

\* the flag settings of an answer that keeps the rest of what it was sent
EchoFragments ==
    {EmptyDict,
     [discovery_string |-> Str("")],
     [shopping_cart |-> Str(W_list)],
     [shopping_cart |-> Str(W_add), cart_item |-> Str("1")]}

\* the answers conversation_client.message may give when sent ctx: without a
\* context, with a new context that holds some flags, or with the context
\* it was sent and some flags set.  Every answer carries output.text, which
\* handle_message posts to the channel; the posted text is not part of the
\* session and is left out of the answer
WatsonResponses(ctx) ==
    {EmptyDict}
    \cup {[context |-> f] : f \in Fragments}
    \cup {[context |-> context_merge(ctx, f)] : f \in EchoFragments}

(***************************************************************************)
(* Customer Resolver.                                                      *)
(***************************************************************************)
\* what the users.info call of init_customer may do: raise, answer with an
\* error (no 'user' key), answer with a profile without email, or answer
\* with the full profile
LookupOutcomes == {"raise", "error", "noemail", "ok"}

\* init_customer, if cust: look the email up in the datastore and bind
\* the stored customer, or create one
bind_customer(st, profile) ==
    LET cust == profile.email
        user_data == find_customer(st.db, cust)
    IN  IF user_data # None
        THEN [customer |-> customer_from_db(user_data),
              db |-> st.db,
              ops |-> <<[op |-> "find", email |-> cust]>>]
        ELSE LET c == create_user_from_ui(profile)
             IN  [customer |-> c,
                  db |-> add_customer_obj(st.db, c),
                  ops |-> <<[op |-> "find", email |-> cust],
                            [op |-> "create", email |-> c.email]>>]

\* init_customer, if self.customer: self.add_customer_to_context(), r being
\* the customer, datastore and datastore calls so far
fold_customer(ctx, r) ==
    [customer |-> r.customer,
     context |-> IF r.customer # None
                 THEN add_customer_to_context(ctx, r.customer) ELSE ctx,
     db |-> r.db,
     ops |-> r.ops]

\* init_customer that goes on with the profile whatever users.info did
init_customer_anyway(st, user_id, outcome) ==
    fold_customer(st.context, bind_customer(st, Profile(user_id)))

\* init_customer(user_id) in session state st = [customer, context, db],
\* with the outcome of the users.info call: the state it leaves and the
\* datastore calls it makes.  Without a 'user' in the answer nothing is
\* done; with a 'user' whose profile has no email no customer is looked up,
\* and a customer bound before is still folded into the context
init_customer(st, user_id, outcome) ==
    LET kept == [customer |-> st.customer, db |-> st.db, ops |-> << >>]
    IN  CASE outcome \in {"raise", "error"} ->
                [customer |-> st.customer, context |-> st.context,
                 db |-> st.db, ops |-> << >>]
          [] outcome = "noemail" -> fold_customer(st.context, kept)
          [] OTHER ->
                fold_customer(st.context, bind_customer(st, Profile(user_id)))

(***************************************************************************)
(* State machine of run().                                                 *)
(***************************************************************************)
\* observation record of a step: the handler, how it ended, the parsed rank
\* and the length of the list the rank refers to (cart handlers only)
Did(h, result, rank, n) == [h |-> h, result |-> result, rank |-> rank, n |-> n]

NoRank == [ok |-> FALSE, n |-> 0]

Init ==
    /\ pc = "poll"
    /\ context = EmptyDict
    /\ customer = None
    /\ response_tuple = None
    /\ discovery_client \in BOOLEAN
    /\ discovery_score_filter \in (IF discovery_client THEN {0, 50} ELSE {0})
    /\ db = InitialDb
    /\ message = None
    /\ channel = None
    /\ user = None
    /\ last = Did("init", "none", NoRank, 0)
    /\ ops = << >>
    /\ turns = 0
    /\ sent = None
    /\ reply = None
    /\ resolved = {}
    /\ call = None

\* where run() goes after init_customer, or after the read when there is
\* nobody to resolve: to handle_message if message and channel, else to the
\* next read
AfterResolve(msg, chan) ==
    IF Truthy(msg) /\ Truthy(chan) THEN "engine" ELSE "poll"

\* NeedsResolve without the test that no customer is bound
NeedsResolveAnyway(usr, cust) == Truthy(usr)

\* run(): if user and not self.customer
NeedsResolve(usr, cust) == Truthy(usr) /\ cust = None

\* one iteration of the while loop of run(), up to the call of
\* init_customer: rtm_read and parse_slack_output
ReadEvents(slack_output) ==
    /\ pc = "poll"
    /\ \E parsed \in {parse_slack_output(slack_output)} :
       LET resolve == NeedsResolve(parsed[3], customer)
       IN  /\ message' = parsed[1]
           /\ channel' = parsed[2]
           /\ user' = parsed[3]
           /\ pc' = IF resolve THEN "resolve"
                    ELSE AfterResolve(parsed[1], parsed[2])
           /\ last' = IF pc' = "poll" THEN last
                      ELSE Did("read", "none", NoRank, 0)
    /\ ops' = << >>
    /\ reply' = None
    /\ UNCHANGED <<context, customer, response_tuple, discovery_client,
                   discovery_score_filter, db, turns, sent, resolved, call>>

\* run(): if user and not self.customer: self.init_customer(user)
InitCustomer(outcome) ==
    /\ pc = "resolve"
    /\ \E st \in {init_customer([customer |-> customer, context |-> context,
                                  db |-> db], user.v, outcome)} :
           /\ customer' = st.customer
           /\ context' = st.context
           /\ db' = st.db
           /\ ops' = st.ops
    /\ pc' = AfterResolve(message, channel)
    /\ last' = Did("init_customer", outcome, NoRank, 0)
    /\ resolved' = resolved \cup {user.v}
    /\ reply' = None
    /\ UNCHANGED <<response_tuple, discovery_client, discovery_score_filter,
                   message, channel, user, turns, sent, call>>

\* get_watson_response(message) and sender.send_message: the text submitted
\* to the dialogue engine and the channel its output is posted to
get_watson_request(msg, chan) == [text |-> msg, channel |-> chan]

\* turn_context that updates the session context with the returned one
turn_context_merged(ctx, watson_response) ==
    IF "context" \in DOMAIN watson_response
    THEN context_merge(ctx, watson_response.context) ELSE ctx

\* if 'context' in watson_response: self.context = watson_response['context']
turn_context(ctx, watson_response) ==
    IF "context" \in DOMAIN watson_response
    THEN watson_response.context ELSE ctx

\* handle_message, first part: the dialogue turn.  The context is replaced
\* by the one the response carries, if it carries one
WatsonTurn(watson_response) ==
    /\ pc = "engine"
    /\ turns < MaxTurns
    /\ sent' = get_watson_request(message, channel)
    /\ reply' = watson_response
    /\ context' = turn_context(context, watson_response)
    /\ pc' = "dispatch"
    /\ turns' = turns + 1
    /\ last' = Did("turn", "none", NoRank, 0)
    /\ ops' = << >>
    /\ UNCHANGED <<customer, response_tuple, discovery_client,
                   discovery_score_filter, db, message, channel, user,
                   resolved, call>>

(***************************************************************************)
(* handle_message, second part: the flag checks, in the order of the code, *)
(* and the handler each one runs.                                          *)
(***************************************************************************)
\* SearchCond without the test that a search client is configured
SearchCondAnyClient(ctx, client) ==
    /\ "discovery_string" \in DOMAIN ctx
    /\ Truthy(ctx.discovery_string)

\* 'discovery_string' in context and context['discovery_string'] and
\* self.discovery_client
SearchCond(ctx, client) ==
    /\ "discovery_string" \in DOMAIN ctx
    /\ Truthy(ctx.discovery_string)
    /\ client

ListCond(ctx) == KeyIs(ctx, "shopping_cart", W_list)

\* AddCond without the test that cart_item is not ''
AddCondAnyItem(ctx) ==
    /\ KeyIs(ctx, "shopping_cart", W_add)
    /\ "cart_item" \in DOMAIN ctx

AddCond(ctx) ==
    /\ KeyIs(ctx, "shopping_cart", W_add)
    /\ "cart_item" \in DOMAIN ctx
    /\ ctx.cart_item # Str("")

DeleteCond(ctx) ==
    /\ KeyIs(ctx, "shopping_cart", W_delete)
    /\ "cart_item" \in DOMAIN ctx
    /\ ctx.cart_item # Str("")

NoInputCond(ctx) == KeyIs(ctx, "get_input", W_no)

\* Branch with the cart checks made before the search check
BranchCartFirst(ctx, client) ==
    IF ListCond(ctx) THEN "list"
    ELSE IF AddCond(ctx) THEN "add"
    ELSE IF DeleteCond(ctx) THEN "delete"
    ELSE IF SearchCond(ctx, client) THEN "search"
    ELSE IF NoInputCond(ctx) THEN "no_input"
    ELSE "input"

\* the branch handle_message takes for a context: the first check that
\* succeeds, in the order of the code
Branch(ctx, client) ==
    IF SearchCond(ctx, client) THEN "search"
    ELSE IF ListCond(ctx) THEN "list"
    ELSE IF AddCond(ctx) THEN "add"
    ELSE IF DeleteCond(ctx) THEN "delete"
    ELSE IF NoInputCond(ctx) THEN "no_input"
    ELSE "input"

\* Continue that goes back to the transport after every call of
\* handle_message
ContinueAfterRead(get_input) == "poll"

\* run(): get_input = self.handle_message(message, sender); while not
\* get_input: handle_message again, with the same message and sender; when
\* get_input, the next iteration of the outer loop reads the transport
Continue(get_input) == IF get_input THEN "poll" ELSE "engine"

\* clear_shopping_cart()
clear_shopping_cart(ctx) ==
    SetItem(SetItem(ctx, "shopping_cart", Str("")), "cart_item", Str(""))

\* handle_DiscoveryQuery whose error description replaces the context
\* instead of being merged into it
handle_DiscoveryQuery_replace(ctx, client, filter, tuple, answer) ==
    IF "discovery_string" \notin DOMAIN ctx
    THEN [result |-> "crash", context |-> ctx, response_tuple |-> tuple]
    ELSE IF client
    THEN IF "exception" \in DOMAIN answer
         THEN [result |-> "continue",
               context |-> [discovery_result |-> Str(answer.exception)],
               response_tuple |-> tuple]
         ELSE LET r == get_discovery_response(answer, filter)
              IN  [result |-> "continue",
                   context |-> context_merge(ctx, r.fragment),
                   response_tuple |-> List(r.response_tuple)]
    ELSE [result |-> "continue",
          context |-> context_merge(ctx,
                                    get_fake_discovery_response(answer.index)),
          response_tuple |-> tuple]

\* handle_DiscoveryQuery: how it ends ("continue" for return False, "crash"
\* for the KeyError of a context without discovery_string), the context
\* with the fragment merged in and the value of self.response_tuple
\* afterwards; answer is what the call of discovery_client.query did or,
\* without a search client, the index drawn for the canned response
handle_DiscoveryQuery(ctx, client, filter, tuple, answer) ==
    IF "discovery_string" \notin DOMAIN ctx
    THEN [result |-> "crash", context |-> ctx, response_tuple |-> tuple]
    ELSE IF client
    THEN IF "exception" \in DOMAIN answer
         THEN [result |-> "continue",
               context |-> context_merge(ctx, [discovery_result |->
                                                 Str(answer.exception)]),
               response_tuple |-> tuple]
         ELSE LET r == get_discovery_response(answer, filter)
              IN  [result |-> "continue",
                   context |-> context_merge(ctx, r.fragment),
                   response_tuple |-> List(r.response_tuple)]
    ELSE [result |-> "continue",
          context |-> context_merge(ctx,
                                    get_fake_discovery_response(answer.index)),
          response_tuple |-> tuple]

\* what the collaborator of handle_DiscoveryQuery may answer
SearchAnswers(client) == IF client THEN QueryAnswers ELSE FakeAnswers

SearchDispatch(answer) ==
    /\ pc = "dispatch"
    /\ Branch(context, discovery_client) = "search"
    /\ \E r \in {handle_DiscoveryQuery(context, discovery_client,
                                       discovery_score_filter, response_tuple,
                                       answer)} :
           /\ context' = r.context
           /\ response_tuple' = r.response_tuple
           /\ pc' = IF r.result = "crash" THEN "crashed" ELSE Continue(FALSE)
           /\ last' = Did("search", r.result, NoRank, 0)
    /\ reply' = answer
    /\ ops' = << >>
    /\ UNCHANGED <<customer, discovery_client, discovery_score_filter, db,
                   message, channel, user, turns, sent, resolved, call>>

\* the listing handle_list_shopping_cart formats, numbered from index
RECURSIVE FormatCart(_, _)
FormatCart(shopping_list, index) ==
    IF shopping_list = << >> THEN ""
    ELSE PyStr(index + 1) \o ") " \o Head(shopping_list) \o "\n"
         \o FormatCart(Tail(shopping_list), index + 1)

\* handle_list_shopping_cart(): how it ends ("continue" for return False,
\* "crash" for the AttributeError of self.customer.email without a
\* customer), and the context, datastore and datastore calls it leaves
handle_list_shopping_cart(ctx, d, c) ==
    IF c = None
    THEN [result |-> "crash", context |-> ctx, db |-> d, ops |-> << >>,
          rank |-> NoRank, n |-> 0]
    ELSE LET shopping_list == list_shopping_cart(d, c.email)
         IN  [result |-> "continue",
              context |-> SetItem(ctx, "shopping_cart",
                                  Str(FormatCart(shopping_list, 0))),
              db |-> d,
              ops |-> <<[op |-> "list", email |-> c.email]>>,
              rank |-> NoRank,
              n |-> Len(shopping_list)]

\* AddedItems with the rank compared with the 0-based index
RECURSIVE AddedItemsFromZero(_, _, _)
AddedItemsFromZero(entries, index, cart_item) ==
    IF entries = << >> THEN << >>
    ELSE (IF index = cart_item THEN <<CartLine(Head(entries))>> ELSE << >>)
         \o AddedItemsFromZero(Tail(entries), index + 1, cart_item)

\* the loop of handle_add_to_cart: the items appended for rank cart_item,
\* entries being enumerate(self.response_tuple) from position index on
RECURSIVE AddedItems(_, _, _)
AddedItems(entries, index, cart_item) ==
    IF entries = << >> THEN << >>
    ELSE (IF index + 1 = cart_item THEN <<CartLine(Head(entries))>> ELSE << >>)
         \o AddedItems(Tail(entries), index + 1, cart_item)

RECURSIVE AddAll(_, _, _)
AddAll(d, email, items) ==
    IF items = << >> THEN d
    ELSE AddAll(add_to_shopping_cart(d, email, Head(items)), email, Tail(items))

\* int(self.context['cart_item']) raises something other than ValueError:
\* KeyError without the key, TypeError for a value that is no str
NoRankText(ctx) == "cart_item" \notin DOMAIN ctx \/ ctx.cart_item.t # "str"

\* handle_add_to_cart(): how it ends ("continue" for return False, "crash"
\* for an exception it does not catch), and the context, datastore and
\* datastore calls it leaves
handle_add_to_cart(ctx, d, c, tuple) ==
    LET rank == IF NoRankText(ctx) THEN NoRank ELSE PyInt(ctx.cart_item.v)
        same == [result |-> "continue", context |-> ctx, db |-> d,
                 ops |-> << >>, rank |-> rank, n |-> 0]
    IN  IF NoRankText(ctx) THEN [same EXCEPT !.result = "crash"]
        ELSE IF ~rank.ok THEN same
        ELSE IF c = None \/ tuple = None
        THEN [same EXCEPT !.result = "crash"]
        ELSE LET items == AddedItems(tuple.v, 0, rank.n)
             IN  [result |-> "continue",
                  context |-> clear_shopping_cart(ctx),
                  db |-> AddAll(d, c.email, items),
                  ops |-> [i \in 1..Len(items) |->
                             [op |-> "add", email |-> c.email, item |-> items[i]]],
                  rank |-> rank,
                  n |-> Len(tuple.v)]

\* the loop of handle_delete_from_cart: the items deleted for rank item_num
RECURSIVE DeletedItems(_, _, _)
DeletedItems(shopping_list, index, item_num) ==
    IF shopping_list = << >> THEN << >>
    ELSE (IF index + 1 = item_num THEN <<Head(shopping_list)>> ELSE << >>)
         \o DeletedItems(Tail(shopping_list), index + 1, item_num)

RECURSIVE DeleteAll(_, _, _)
DeleteAll(d, email, items) ==
    IF items = << >> THEN d
    ELSE DeleteAll(delete_item_shopping_cart(d, email, Head(items)), email,
                   Tail(items))

\* handle_delete_from_cart(), as handle_add_to_cart above
handle_delete_from_cart(ctx, d, c) ==
    IF c = None
    THEN [result |-> "crash", context |-> ctx, db |-> d, ops |-> << >>,
          rank |-> NoRank, n |-> 0]
    ELSE LET shopping_list == list_shopping_cart(d, c.email)
             read == <<[op |-> "list", email |-> c.email]>>
             rank == IF NoRankText(ctx) THEN NoRank
                     ELSE PyInt(ctx.cart_item.v)
         IN  IF NoRankText(ctx)
             THEN [result |-> "crash", context |-> ctx, db |-> d,
                   ops |-> read, rank |-> NoRank, n |-> Len(shopping_list)]
             ELSE IF ~rank.ok
             THEN [result |-> "continue", context |-> ctx, db |-> d,
                   ops |-> read, rank |-> rank, n |-> Len(shopping_list)]
             ELSE LET items == DeletedItems(shopping_list, 0, rank.n)
                  IN  [result |-> "continue",
                       context |-> clear_shopping_cart(ctx),
                       db |-> DeleteAll(d, c.email, items),
                       ops |-> read \o
                               [i \in 1..Len(items) |->
                                  [op |-> "delete", email |-> c.email,
                                   item |-> items[i]]],
                       rank |-> rank,
                       n |-> Len(shopping_list)]

\* a cart handler's outcome applied to the session
Apply(h, r) ==
    /\ pc' = IF r.result = "crash" THEN "crashed" ELSE Continue(FALSE)
    /\ context' = r.context
    /\ db' = r.db
    /\ ops' = r.ops
    /\ last' = Did(h, r.result, r.rank, r.n)
    /\ reply' = None
    /\ UNCHANGED <<customer, response_tuple, discovery_client,
                   discovery_score_filter, message, channel, user, turns, sent,
                   resolved, call>>

\* every stored cart stays within the bound of the model
WithinBound(d) == \A e \in DOMAIN d : Len(d[e].shopping_cart) <= MaxCart

CartList ==
    /\ pc = "dispatch"
    /\ Branch(context, discovery_client) = "list"
    /\ \E r \in {handle_list_shopping_cart(context, db, customer)} :
          Apply("list", r)

CartAdd ==
    /\ pc = "dispatch"
    /\ Branch(context, discovery_client) = "add"
    /\ \E r \in {handle_add_to_cart(context, db, customer, response_tuple)} :
          WithinBound(r.db) /\ Apply("add", r)

CartDelete ==
    /\ pc = "dispatch"
    /\ Branch(context, discovery_client) = "delete"
    /\ \E r \in {handle_delete_from_cart(context, db, customer)} :
          Apply("delete", r)

\* get_input == 'no': return False, the loop takes another turn
NoInput ==
    /\ pc = "dispatch"
    /\ Branch(context, discovery_client) = "no_input"
    /\ pc' = Continue(FALSE)
    /\ last' = Did("no_input", "continue", NoRank, 0)
    /\ ops' = << >>
    /\ reply' = None
    /\ UNCHANGED <<context, customer, response_tuple, discovery_client,
                   discovery_score_filter, db, message, channel, user, turns,
                   sent, resolved, call>>

\* return True: the loop goes back to reading the transport; message,
\* channel and user are assigned anew by the next iteration before any use
InputRequired ==
    /\ pc = "dispatch"
    /\ Branch(context, discovery_client) = "input"
    /\ pc' = Continue(TRUE)
    /\ last' = Did("input", "input", NoRank, 0)
    /\ ops' = << >>
    /\ message' = None
    /\ channel' = None
    /\ user' = None
    /\ sent' = None
    /\ reply' = None
    /\ UNCHANGED <<context, customer, response_tuple, discovery_client,
                   discovery_score_filter, db, turns, resolved, call>>

Next ==
    \/ \E slack_output \in Batches : ReadEvents(slack_output)
    \/ \E outcome \in LookupOutcomes : InitCustomer(outcome)
    \/ \E watson_response \in WatsonResponses(context) : WatsonTurn(watson_response)
    \/ \E answer \in SearchAnswers(discovery_client) : SearchDispatch(answer)
    \/ CartList
    \/ CartAdd
    \/ CartDelete
    \/ NoInput
    \/ InputRequired

Spec == Init /\ [][Next]_vars

(***************************************************************************)
(* Vocabulary of the properties: the flags of a context as the             *)
(* specification names them, and the datastore calls of a step.            *)
(***************************************************************************)
\* a non-empty search-query flag and a search client
FlagSearch(ctx, client) ==
    client /\ "discovery_string" \in DOMAIN ctx /\ ctx.discovery_string.v # ""

\* the cart flag holds the word w
FlagCart(ctx, w) == "shopping_cart" \in DOMAIN ctx /\ ctx.shopping_cart = Str(w)

\* a non-empty item-rank flag
FlagItem(ctx) == "cart_item" \in DOMAIN ctx /\ ctx.cart_item # Str("")

\* the "no further input needed" flag
FlagNoInput(ctx) == "get_input" \in DOMAIN ctx /\ ctx.get_input = Str(W_no)

\* both transient cart flags are cleared
Cleared(ctx) ==
    /\ "shopping_cart" \in DOMAIN ctx /\ ctx.shopping_cart = Str("")
    /\ "cart_item" \in DOMAIN ctx /\ ctx.cart_item = Str("")

\* neither transient cart flag holds a non-empty value
NoFlag(ctx) ==
    /\ "shopping_cart" \in DOMAIN ctx => ctx.shopping_cart = Str("")
    /\ "cart_item" \in DOMAIN ctx => ctx.cart_item = Str("")

\* no datastore write among the calls o
NoWrite(o) == \A i \in 1..Len(o) : o[i].op \notin {"add", "delete", "create"}

\* the handlers handle_message may run
Handlers == {"search", "list", "add", "delete"}

(***************************************************************************)
(* C1: after a dialogue turn exactly one branch of handle_message is       *)
(* taken, chosen in a fixed priority order: with a non-empty               *)
(* discovery_string and a search client only Search Dispatch runs, even if *)
(* shopping_cart is 'list', 'add' or 'delete' (no datastore call is made   *)
(* and the datastore is unchanged); otherwise cart list comes before cart  *)
(* add, cart add before cart delete, and get_input == 'no' decides only    *)
(* when no search or cart handler fired.                                   *)
(***************************************************************************)
C1_PriorityOrder ==
    [][pc = "dispatch" =>
        LET s == FlagSearch(context, discovery_client)
            l == FlagCart(context, W_list)
            a == FlagCart(context, W_add) /\ FlagItem(context)
            d == FlagCart(context, W_delete) /\ FlagItem(context)
            g == FlagNoInput(context)
            h == last'.h
        IN  /\ h \in Handlers \cup {"no_input", "input"}
            /\ s => h = "search" /\ ops' = << >> /\ db' = db
            /\ ~s /\ l => h = "list"
            /\ ~s /\ ~l /\ a => h = "add"
            /\ ~s /\ ~l /\ ~a /\ d => h = "delete"
            /\ h = "no_input" => g /\ ~s /\ ~l /\ ~a /\ ~d
            /\ h = "input" => ~g /\ ~s /\ ~l /\ ~a /\ ~d
            /\ h # "search" => response_tuple' = response_tuple
            /\ h \notin {"list", "add", "delete"} => ops' = << >> /\ db' = db
    ]_vars

\* Search Dispatch has run in a turn whose context asked for the cart list too
C1_Witness ==
    /\ last.h = "search"
    /\ FlagCart(context, W_list)
    /\ "discovery_result" \in DOMAIN context
    /\ ops = << >>

(***************************************************************************)
(* C3: handle_message asks for input (the loop goes back to reading the    *)
(* transport) exactly when none of the five flag conditions holds for the  *)
(* context after the turn; shopping_cart 'add' or 'delete' with an empty   *)
(* or absent cart_item performs no cart operation.                         *)
(***************************************************************************)
C3_InputRequired ==
    [][pc = "dispatch" =>
        LET s == FlagSearch(context, discovery_client)
            l == FlagCart(context, W_list)
            a == FlagCart(context, W_add) /\ FlagItem(context)
            d == FlagCart(context, W_delete) /\ FlagItem(context)
            g == FlagNoInput(context)
        IN  /\ (pc' = "poll" /\ last'.result = "input")
               <=> (~s /\ ~l /\ ~a /\ ~d /\ ~g)
            /\ (FlagCart(context, W_add) \/ FlagCart(context, W_delete))
               /\ ~FlagItem(context)
               => /\ last'.h \notin {"list", "add", "delete"}
                  /\ ops' = << >>
                  /\ db' = db
    ]_vars

\* input was asked for although the context said 'add', without a cart_item
C3_Witness ==
    /\ pc = "poll"
    /\ last.h = "input"
    /\ FlagCart(context, W_add)
    /\ "cart_item" \notin DOMAIN context

(***************************************************************************)
(* C2 (as the specification states it, read with the priority of C1): when *)
(* the context returned by a dialogue turn has shopping_cart == 'list' and *)
(* Search Dispatch does not take the turn, the loop performs the cart list *)
(* handler, writes the formatted listing into the context and takes        *)
(* another dialogue turn without reading the transport.                    *)
(* The code does so only when a customer is bound: run() calls             *)
(* handle_message whether or not init_customer bound one, and              *)
(* handle_list_shopping_cart then fails on self.customer.email.            *)
(***************************************************************************)
C2_ListContinues ==
    [][pc = "dispatch" /\ FlagCart(context, W_list)
       /\ ~FlagSearch(context, discovery_client)
       => /\ last'.h = "list"
          /\ pc' = "engine"
          /\ "shopping_cart" \in DOMAIN context'
          /\ context'.shopping_cart.t = "str"
          /\ context'.shopping_cart # Str(W_list)
          /\ <<message', channel'>> = <<message, channel>>
    ]_vars

\* C2, the part the code keeps: with a customer bound, the listing of that
\* customer's stored cart is written and the next step is a dialogue turn
C2_ListContinuesWhenBound ==
    [][pc = "dispatch" /\ FlagCart(context, W_list)
       /\ ~FlagSearch(context, discovery_client) /\ customer # None
       => /\ last'.h = "list"
          /\ pc' = "engine"
          /\ context' = SetItem(context, "shopping_cart",
                Str(FormatCart(list_shopping_cart(db, customer.email), 0)))
          /\ ops' = <<[op |-> "list", email |-> customer.email]>>
          /\ <<message', channel'>> = <<message, channel>>
    ]_vars

(***************************************************************************)
(* C4: when cart_item is non-numeric, cart add and cart delete return      *)
(* without a datastore write, and shopping_cart and cart_item are cleared  *)
(* when the handler returns.                                               *)
(* The code returns from the except branch before clear_shopping_cart.     *)
(***************************************************************************)
C4_NonNumericCleared ==
    last.h \in {"add", "delete"} /\ last.result = "continue" /\ ~last.rank.ok
    => NoWrite(ops) /\ Cleared(context)

(***************************************************************************)
(* C5: for every integer rank outside [1, len(list)] (the last search      *)
(* result list for add, the current cart listing for delete), cart add and *)
(* cart delete issue no datastore write and leave shopping_cart and        *)
(* cart_item cleared.                                                      *)
(* The code does so only when a customer is bound: handle_add_to_cart      *)
(* fails on self.customer.email before it clears the flags.                *)
(***************************************************************************)
RankOutside(n, len) == n < 1 \/ n > len

C5_OutOfRange ==
    \/ /\ last.h = "add"
       /\ last.rank.ok
       /\ response_tuple # None
       /\ RankOutside(last.rank.n, Len(response_tuple.v))
    \/ /\ last.h = "delete"
       /\ last.rank.ok
       /\ customer # None
       /\ RankOutside(last.rank.n, last.n)
    => NoWrite(ops) /\ Cleared(context)

\* C5, the part the code keeps: the same with a customer bound
C5_OutOfRangeWhenBound ==
    /\ last.h \in {"add", "delete"}
    /\ last.rank.ok
    /\ customer # None
    /\ last.h = "add" => response_tuple # None
    /\ RankOutside(last.rank.n,
                   IF last.h = "add" THEN Len(response_tuple.v) ELSE last.n)
    => NoWrite(ops) /\ Cleared(context)

(***************************************************************************)
(* C6: cart add with a rank r inside the range of the most recent search   *)
(* result list issues exactly one datastore append, for the bound          *)
(* customer's email, of the item '<name>: <url>\n' built from the r-th     *)
(* record of that list, and no other datastore call.                       *)
(***************************************************************************)
C6_AddInRange ==
    /\ last.h = "add"
    /\ last.rank.ok
    /\ customer # None
    /\ response_tuple # None
    /\ last.rank.n \in 1..Len(response_tuple.v)
    => LET entry == response_tuple.v[last.rank.n]
       IN  ops = <<[op |-> "add", email |-> customer.email,
                    item |-> entry.name \o ": " \o entry.url \o "\n"]>>

\* the second record of a two-record result list has been added
C6_Witness ==
    /\ last.h = "add"
    /\ last.result = "continue"
    /\ last.rank.ok
    /\ last.rank.n = 2
    /\ last.n = 2
    /\ Len(ops) = 1

(***************************************************************************)
(* C7: the cart handlers leave both transient flags shopping_cart and      *)
(* cart_item cleared when they complete; stated here for cart list, the    *)
(* claim's own case: after cart list the context carries no non-empty      *)
(* shopping_cart value and no non-empty cart_item.                         *)
(* handle_list_shopping_cart never calls clear_shopping_cart: it stores    *)
(* the listing under shopping_cart and leaves cart_item as it was.  (For   *)
(* add and delete the flags stay set on a non-numeric rank, see C4.)       *)
(***************************************************************************)
C7_ListCleared ==
    last.h = "list" /\ last.result = "continue" => NoFlag(context)

\* C7, what the code does: cart add and cart delete leave both flags cleared
\* once the rank has parsed, whether or not a datastore write happened; cart
\* list replaces shopping_cart by the formatted listing of the stored cart,
\* which is non-empty exactly when that cart is non-empty, and changes no
\* other key of the context
C7_FlagsAfterCartHandlers ==
    [][pc = "dispatch" /\ last'.result = "continue" =>
        /\ last'.h \in {"add", "delete"} /\ last'.rank.ok
           => /\ Cleared(context')
              /\ \A k \in DOMAIN context \ {"shopping_cart", "cart_item"} :
                    k \in DOMAIN context' /\ context'[k] = context[k]
        /\ last'.h = "list"
           => /\ DOMAIN context' = DOMAIN context
              /\ \A k \in DOMAIN context \ {"shopping_cart"} :
                    context'[k] = context[k]
              /\ context'.shopping_cart.t = "str"
              /\ (context'.shopping_cart.v = "")
                 <=> (db[customer.email].shopping_cart = << >>)
    ]_vars

(***************************************************************************)
(* C8: once the loop has started, no sequence of transport events and      *)
(* dialogue-engine responses makes it end with an unhandled error.         *)
(* The code lets the exceptions of its cart handlers leave run(): no       *)
(* customer bound (self.customer is None), or no result list stored yet    *)
(* (self.response_tuple is None).                                          *)
(***************************************************************************)
C8_NeverCrashes == pc # "crashed"

(***************************************************************************)
(* C9: when the Customer Resolver finds the identity's email in the        *)
(* datastore, the bound customer and the shopping_cart folded into the     *)
(* context carry the cart stored for that record, and no datastore write   *)
(* is made.                                                                *)
(* customer_from_db builds the customer with shopping_cart=[] whatever the *)
(* stored document holds.                                                  *)
(***************************************************************************)
C9_StoredCartBound ==
    /\ last.h = "init_customer"
    /\ last.result = "ok"
    /\ ops = <<[op |-> "find", email |-> customer.email]>>
    => /\ NoWrite(ops)
       /\ customer.shopping_cart = db[customer.email].shopping_cart
       /\ context.shopping_cart = List(db[customer.email].shopping_cart)

(***************************************************************************)
(* C10: when the identity's email is not in the datastore, the Customer    *)
(* Resolver binds a new customer with an empty cart built from the profile *)
(* fields and performs exactly one datastore create, for that customer;    *)
(* afterwards the context holds email, first_name, last_name and           *)
(* shopping_cart with that customer's values, and every other key the      *)
(* context had keeps its value.                                            *)
(***************************************************************************)
C10_NewCustomer ==
    [][pc = "resolve" /\ last'.h = "init_customer" /\ last'.result = "ok"
       /\ Profile(user.v).email \notin DOMAIN db
       => LET profile == Profile(user.v)
          IN  /\ customer' = [t |-> "obj", email |-> profile.email,
                              first_name |-> profile.first_name,
                              last_name |-> profile.last_name,
                              shopping_cart |-> << >>]
              /\ Len(SelectSeq(ops', LAMBDA o : o.op = "create")) = 1
              /\ \A i \in 1..Len(ops') :
                    /\ ops'[i].op \in {"find", "create"}
                    /\ ops'[i].email = profile.email
              /\ {"email", "first_name", "last_name", "shopping_cart"}
                    \subseteq DOMAIN context'
              /\ context'.email = Str(profile.email)
              /\ context'.first_name = Str(profile.first_name)
              /\ context'.last_name = Str(profile.last_name)
              /\ context'.shopping_cart = List(<< >>)
              /\ \A k \in DOMAIN context \
                          {"email", "first_name", "last_name", "shopping_cart"} :
                    k \in DOMAIN context' /\ context'[k] = context[k]
    ]_vars

\* a new customer has been created while the context held keys of an
\* earlier turn
C10_Witness ==
    /\ last.h = "init_customer"
    /\ last.result = "ok"
    /\ Len(ops) = 2
    /\ ops[2].op = "create"
    /\ customer.email \in DOMAIN db
    /\ "cart_item" \in DOMAIN context
    /\ "discovery_result" \in DOMAIN context

(***************************************************************************)
(* C11 (as the specification states it): init_customer is invoked at most  *)
(* once for any given chat identity, and once a customer is bound it is    *)
(* never invoked again and the bound customer never changes.               *)
(* An invocation that binds nobody (the users.info call failed or gave no  *)
(* email) is followed by another one on the identity's next event.         *)
(***************************************************************************)
C11_OncePerIdentity ==
    [][/\ pc = "resolve" => user.v \notin resolved
       /\ customer # None => customer' = customer /\ pc' # "resolve"
    ]_vars

(***************************************************************************)
(* C11 (amended): init_customer is invoked only while no customer is       *)
(* bound, so for a given identity again only after invocations that bound  *)
(* nobody; once a customer is bound it is never invoked again and the      *)
(* bound customer never changes.                                           *)
(***************************************************************************)
C11_OnceBound ==
    [][/\ pc = "resolve" => customer = None
       /\ pc = "resolve" /\ user.v \in resolved => customer = None
       /\ customer # None => customer' = customer /\ pc' # "resolve"
    ]_vars

\* with a customer bound, a message of another identity has been read and
\* goes to the dialogue engine without a call of init_customer
C11_Witness ==
    /\ customer # None
    /\ pc = "engine"
    /\ last.h = "read"
    /\ Truthy(user)
    /\ Profile(user.v).email # customer.email

(***************************************************************************)
(* C12: a cart operation that runs in a turn triggered by a message of     *)
(* identity U acts on the record of U: every datastore call of a cart      *)
(* handler names the email of the author of the message being handled.     *)
(* run() keeps the first customer bound for the whole session, whoever     *)
(* writes next.                                                            *)
(***************************************************************************)
C12_OwnCart ==
    last.h \in {"list", "add", "delete"} /\ ops # << >>
    => \A i \in 1..Len(ops) : ops[i].email = Profile(user.v).email

(***************************************************************************)
(* C14: when the search collaborator raises during Search Dispatch, the    *)
(* exception does not leave the handler: discovery_result is set to the    *)
(* exception's description, every other key of the context is kept, the    *)
(* handler returns False and the loop takes the next dialogue turn.        *)
(***************************************************************************)
C14_SearchRaises ==
    [][pc = "dispatch" /\ Branch(context, discovery_client) = "search"
       /\ "exception" \in DOMAIN reply'
       => /\ pc' = "engine"
          /\ last' = Did("search", "continue", NoRank, 0)
          /\ context' = SetItem(context, "discovery_result",
                                Str(reply'.exception))
          /\ <<message', channel'>> = <<message, channel>>
    ]_vars

\* a failed query has been recovered in a context that holds other keys
C14_Witness ==
    /\ last.h = "search"
    /\ "exception" \in DOMAIN reply
    /\ pc = "engine"
    /\ context.discovery_result = Str(ReprError)
    /\ "discovery_string" \in DOMAIN context
    /\ FlagCart(context, W_list)

(***************************************************************************)
(* C15: after every Search Dispatch the stored result list is the one      *)
(* derived from that query: the formatted results of its answer, and no    *)
(* results (nothing stored, or an empty list) when the query failed.       *)
(* When the query raises, get_discovery_response is left before it         *)
(* assigns self.response_tuple, which keeps the list of an earlier query.  *)
(***************************************************************************)
C15_ResultsOfLatestQuery ==
    last.h = "search" /\ discovery_client
    => IF "exception" \in DOMAIN reply
       THEN response_tuple \in {None, List(<< >>)}
       ELSE response_tuple =
              List(get_discovery_response(reply, discovery_score_filter)
                      .response_tuple)

(***************************************************************************)
(* C18: after a dialogue turn whose response carries a context, the        *)
(* session context is exactly that context before any handler runs (keys   *)
(* the engine dropped, customer fields included, are gone); when the       *)
(* response carries no context, the turn leaves the session context as it  *)
(* was.                                                                    *)
(***************************************************************************)
C18_ContextReplaced ==
    [][pc = "engine" /\ pc' = "dispatch"
       => IF "context" \in DOMAIN reply'
          THEN context' = reply'.context
          ELSE context' = context
    ]_vars

\* after a turn the customer fields, folded in when the customer was bound,
\* are gone from the context
C18_Witness ==
    /\ pc = "dispatch"
    /\ last.h = "turn"
    /\ customer # None
    /\ "context" \in DOMAIN reply
    /\ "email" \notin DOMAIN context
    /\ "shopping_cart" \in DOMAIN context

(***************************************************************************)
(* C19: every continuation turn submits to the dialogue engine the message *)
(* text of the turn that started the chain, on the same channel, and no    *)
(* transport read happens between the turns of one chain: after a handler  *)
(* that returned False the next step is a dialogue turn.                   *)
(***************************************************************************)
C19_SameMessage ==
    [][/\ pc = "engine" /\ pc' = "dispatch"
          => /\ sent' = [text |-> message, channel |-> channel]
             /\ sent # None => sent' = sent
       /\ pc = "dispatch" /\ last'.result = "continue"
          => /\ pc' = "engine"
             /\ <<message', channel', sent'>> = <<message, channel, sent>>
       /\ pc = "engine" /\ sent # None => pc' = "dispatch"
    ]_vars

\* a second turn of a chain has been taken, after a handler returned False
C19_Witness ==
    /\ pc = "dispatch"
    /\ last.h = "turn"
    /\ turns = 2
    /\ sent = [text |-> Str("hi"), channel |-> Str("C1")]
    /\ "discovery_result" \in DOMAIN context

(***************************************************************************)
(* C20: when the identity-profile lookup of the transport fails (the call  *)
(* raises or answers without a user; likewise when the profile holds no    *)
(* email), the resolver binds no customer, leaves the context unchanged    *)
(* and makes no datastore call; for as long as no customer is bound, every *)
(* read that yields an author identity (the first event of the batch       *)
(* addressed to the bot) is followed by a call of the resolver.            *)
(***************************************************************************)
C20_LookupFailure ==
    [][/\ pc = "resolve" /\ last'.result \in {"raise", "error", "noemail"}
          => /\ customer' = None
             /\ context' = context
             /\ db' = db
             /\ ops' = << >>
             /\ pc' = IF Truthy(message) /\ Truthy(channel)
                       THEN "engine" ELSE "poll"
       /\ pc = "poll" /\ customer = None /\ Truthy(user')
          => pc' = "resolve"
    ]_vars

\* the resolver is about to be called again for an identity whose lookup
\* failed before
C20_Witness ==
    /\ pc = "resolve"
    /\ customer = None
    /\ user.v \in resolved
    /\ context # EmptyDict

(***************************************************************************)
(* C21: a cart add that runs when no Search Dispatch has stored a result   *)
(* list yet is a silent no-op: no datastore write, no error, shopping_cart *)
(* and cart_item cleared, and the handler returns False.  Stated for the   *)
(* claim's own case, a bound customer and a numeric rank.                  *)
(* handle_add_to_cart iterates self.response_tuple, which is None until a  *)
(* search has stored a list: enumerate(None) raises TypeError.             *)
(***************************************************************************)
C21_AddBeforeSearch ==
    /\ last.h = "add"
    /\ last.rank.ok
    /\ customer # None
    /\ response_tuple = None
    => /\ last.result = "continue"
       /\ pc = "engine"
       /\ NoWrite(ops)
       /\ Cleared(context)

(***************************************************************************)
(* C22: no handler is triggered again by the context it leaves behind:     *)
(* when the dialogue engine returns on the next turn exactly the context   *)
(* it was sent, handle_message does not take the branch of the handler     *)
(* that just ran.  Stated for Search Dispatch, the claim's own case (the   *)
(* error paths of cart add and cart delete are those of C4).               *)
(* handle_DiscoveryQuery merges discovery_result into the context and      *)
(* leaves discovery_string as it was, so the same context selects Search   *)
(* Dispatch again.                                                         *)
(***************************************************************************)
C22_SearchNotRetriggered ==
    last.h = "search" /\ last.result = "continue"
    => Branch(context, discovery_client) # "search"

\* C22, what the code keeps: cart list, and cart add and cart delete once
\* the rank has parsed, leave a context that does not select them again
C22_CartNotRetriggered ==
    /\ last.h \in {"list", "add", "delete"}
    /\ last.result = "continue"
    /\ last.h = "list" \/ last.rank.ok
    => Branch(context, discovery_client) # last.h

(***************************************************************************)
(* C24: when no search client is configured, no turn runs Search Dispatch, *)
(* whatever discovery_string the context holds: discovery_result is not    *)
(* written, the stored result list is not touched, and the turn falls      *)
(* through to the cart checks and the get_input check.                     *)
(***************************************************************************)
C24_NoSearchClient ==
    [][pc = "dispatch" /\ ~discovery_client
       => LET l == FlagCart(context, W_list)
              a == FlagCart(context, W_add) /\ FlagItem(context)
              d == FlagCart(context, W_delete) /\ FlagItem(context)
              g == FlagNoInput(context)
          IN  /\ last'.h # "search"
              /\ reply' = None
              /\ response_tuple' = response_tuple
              /\ "discovery_result" \in DOMAIN context'
                 <=> "discovery_result" \in DOMAIN context
              /\ "discovery_result" \in DOMAIN context
                 => context'.discovery_result = context.discovery_result
              /\ last'.h = (IF l THEN "list"
                            ELSE IF a THEN "add"
                            ELSE IF d THEN "delete"
                            ELSE IF g THEN "no_input"
                            ELSE "input")
    ]_vars

\* without a search client, a turn whose context holds a query and the cart
\* flag 'list' has run the cart list handler
C24_Witness ==
    /\ ~discovery_client
    /\ last.h = "list"
    /\ "discovery_string" \in DOMAIN context
    /\ context.discovery_string # Str("")
    /\ "discovery_result" \notin DOMAIN context

(***************************************************************************)
(* Vocabulary of C23: the events of a batch that are addressed to the bot. *)
(***************************************************************************)
\* the event is addressed to the bot: it mentions the bot, or it is a
\* direct message of somebody else
Addressed(output) ==
    /\ {"text", "user"} \subseteq DOMAIN output
    /\ "user_profile" \notin DOMAIN output
    /\ \/ Contains(output.text, at_bot)
       \/ StartsWithD(output.channel) /\ output.user # bot_id

\* the positions of the events of a batch that are addressed to the bot
AddressedAt(b) == {i \in 1..Len(b) : Addressed(b[i])}

\* position of the first event addressed to the bot
FirstAddressed(b) == CHOOSE i \in AddressedAt(b) : \A j \in AddressedAt(b) : i <= j

\* C23, in the loop: a read of run() leaves the session exactly as the read
\* of the batch cut after its first addressed event does, and starts no
\* dialogue turn by itself, so nothing of the later events of the batch can
\* reach a later poll
C23_ReadKeepsFirstEventOnly ==
    [][pc = "poll" =>
        \A b \in Batches : ReadEvents(b) =>
            IF AddressedAt(b) = {}
            THEN /\ <<message', channel', user'>> = <<None, None, None>>
                 /\ pc' = "poll"
            ELSE LET first == FirstAddressed(b)
                 IN  /\ user' = Str(b[first].user)
                     /\ channel' = Str(b[first].channel)
                     /\ message' = parse_slack_output(<<b[first]>>)[1]
                     /\ ReadEvents(SubSeq(b, 1, first))
                     /\ pc' = "engine" => sent' = None /\ turns' = turns
    ]_vars

(***************************************************************************)
(* Calls of the pure functions of the program, each on arguments drawn     *)
(* from a bounded set: a call is made (pc = "call"), then it returns       *)
(* (pc = "return") with its result in call.ret.                            *)
(***************************************************************************)
\* the dicts over three context keys and two values
MergeKeys == {"shopping_cart", "cart_item", "email"}

MergeValues == {Str(""), Str(W_add)}

Dicts == UNION {[keys -> MergeValues] : keys \in SUBSET MergeKeys}

\* context_merge(dict1, dict2), dict2 possibly None
MergeCalls ==
    {[fn |-> "context_merge", args |-> <<dict1, dict2>>, ret |-> None] :
        dict1 \in Dicts, dict2 \in Dicts \cup {None}}

\* raw results as the formatter may meet them: with both fields and all
\* markers, without any field, with fields that hold no marker
RawBare == [score |-> 70]

RawNoMarker == [html |-> "<p>", text |-> "t", score |-> 60]

FormatRaws == {RawA, RawB, RawBare, RawNoMarker}

\* format_discovery_response(response)
FormatCalls ==
    {[fn |-> "format_discovery_response", args |-> <<[results |-> rs]>>,
      ret |-> None] : rs \in SeqsUpTo(FormatRaws, MaxResults)}
    \cup {[fn |-> "format_discovery_response",
           args |-> <<[matching_results |-> 0]>>, ret |-> None]}

\* raw results as the score filter may meet them: scoring above, at and
\* below the threshold, and without a score
ScoredRaws == {[score |-> 90], [score |-> 50], [score |-> 30], [id |-> "n"]}

\* the score filter of get_discovery_response, on the service's answer and
\* self.discovery_score_filter (in hundredths)
FilterCalls ==
    {[fn |-> "score_filter",
      args |-> <<[results |-> rs, matching_results |-> Len(rs) + 1], t>>,
      ret |-> None] : rs \in SeqsUpTo(ScoredRaws, MaxScored), t \in {0, 50}}

\* parse_slack_output(output_list) on a batch rtm_read may return
ParseCalls ==
    {[fn |-> "parse_slack_output", args |-> <<b>>, ret |-> None] :
        b \in Batches}

Calls == MergeCalls \cup FormatCalls \cup FilterCalls \cup ParseCalls

FnInit ==
    /\ pc = "call"
    /\ call \in Calls
    /\ context = EmptyDict
    /\ customer = None
    /\ response_tuple = None
    /\ discovery_client = FALSE
    /\ discovery_score_filter = 0
    /\ db = InitialDb
    /\ message = None
    /\ channel = None
    /\ user = None
    /\ last = Did("init", "none", NoRank, 0)
    /\ ops = << >>
    /\ turns = 0
    /\ sent = None
    /\ reply = None
    /\ resolved = {}

\* the call returns ret
Return(ret) ==
    /\ pc' = "return"
    /\ call' = [call EXCEPT !.ret = ret]
    /\ UNCHANGED <<context, customer, response_tuple, discovery_client,
                   discovery_score_filter, db, message, channel, user, last,
                   ops, turns, sent, reply, resolved>>

CallContextMerge ==
    /\ pc = "call"
    /\ call.fn = "context_merge"
    /\ Return(context_merge(call.args[1], call.args[2]))

CallFormat ==
    /\ pc = "call"
    /\ call.fn = "format_discovery_response"
    /\ Return(format_discovery_response(call.args[1]))

CallScoreFilter ==
    /\ pc = "call"
    /\ call.fn = "score_filter"
    /\ Return(FilteredResponse(call.args[1], call.args[2]))

CallParse ==
    /\ pc = "call"
    /\ call.fn = "parse_slack_output"
    /\ Return(parse_slack_output(call.args[1]))

FnNext ==
    \/ CallContextMerge
    \/ CallFormat
    \/ CallScoreFilter
    \/ CallParse

FnSpec == FnInit /\ [][FnNext]_vars

(***************************************************************************)
(* C13: context_merge(B, F) returns a mapping whose key set is             *)
(* keys(B) union keys(F), with F's value for every key of F and B's value  *)
(* for every key only in B; an empty or absent F returns a mapping equal   *)
(* to B.                                                                   *)
(***************************************************************************)
C13_ContextMerge ==
    pc = "return" /\ call.fn = "context_merge"
    => LET B == call.args[1]
           F == call.args[2]
           R == call.ret
       IN  IF F = None \/ DOMAIN F = {}
           THEN R = B
           ELSE /\ DOMAIN R = DOMAIN B \cup DOMAIN F
                /\ \A k \in DOMAIN F : R[k] = F[k]
                /\ \A k \in DOMAIN B \ DOMAIN F : R[k] = B[k]

\* a merge has returned where the fragment overrides a key of the base,
\* adds a key to it, and leaves a key of it alone
C13_Witness ==
    /\ pc = "return"
    /\ call.fn = "context_merge"
    /\ call.args[2] # None
    /\ \E k \in DOMAIN call.args[1] \cap DOMAIN call.args[2] :
          call.args[1][k] # call.args[2][k]
    /\ DOMAIN call.args[2] \ DOMAIN call.args[1] # {}
    /\ DOMAIN call.args[1] \ DOMAIN call.args[2] # {}
    /\ DOMAIN call.ret = MergeKeys

(***************************************************************************)
(* C16: with a score threshold t > 0, Search Dispatch keeps exactly the    *)
(* raw results whose score is strictly greater than t, in their original   *)
(* order, and sets matching_results to the number kept; with t = 0 nothing *)
(* is filtered and matching_results is not rewritten.                      *)
(***************************************************************************)
C16_ScoreFilter ==
    pc = "return" /\ call.fn = "score_filter"
    => LET raw == call.args[1]
           t == call.args[2]
           R == call.ret
       IN  IF t > 0
           THEN /\ R.results =
                     SelectSeq(raw.results,
                               LAMBDA x : "score" \in DOMAIN x /\ x.score > t)
                /\ R.matching_results = Len(R.results)
           ELSE R = raw

\* the filter has dropped a result scoring exactly the threshold and one
\* below it, and kept one above it
C16_Witness ==
    /\ pc = "return"
    /\ call.fn = "score_filter"
    /\ call.args[2] = 50
    /\ call.args[1].results = <<[score |-> 50], [score |-> 90], [score |-> 30]>>
    /\ call.ret.results = <<[score |-> 90]>>
    /\ call.ret.matching_results = 1

(***************************************************************************)
(* C17: for a raw result list of length n, format_discovery_response       *)
(* returns min(n, 5) records, in input order, with cart numbers            *)
(* 1..min(n, 5); a result without html, text or markers yields a record    *)
(* with empty fields.                                                      *)
(***************************************************************************)
C17_FormatCount ==
    pc = "return" /\ call.fn = "format_discovery_response"
    => LET raw == IF "results" \in DOMAIN call.args[1]
                  THEN call.args[1].results ELSE << >>
           R == call.ret
           m == IF Len(raw) < 5 THEN Len(raw) ELSE 5
       IN  /\ Len(R) = m
           /\ \A i \in 1..m :
                 /\ R[i].cart_number = PyStr(i)
                 /\ R[i].name = slack_encode(ProductName(raw[i]))
                 /\ R[i].url = slack_encode(ProductUrl(raw[i]))
                 /\ R[i].image = slack_encode(ImageUrl(raw[i]))
                 /\ "html" \notin DOMAIN raw[i] => R[i].url = "" /\ R[i].image = ""
                 /\ "text" \notin DOMAIN raw[i] => R[i].name = ""

\* six results, one of them without any field, have been formatted into
\* five records
C17_Witness ==
    /\ pc = "return"
    /\ call.fn = "format_discovery_response"
    /\ Len(call.args[1].results) = 6
    /\ call.args[1].results[2] = RawBare
    /\ call.args[1].results[3] = RawNoMarker
    /\ Len(call.ret) = 5
    /\ call.ret[5].cart_number = "5"
    /\ call.ret[2].name = ""

(***************************************************************************)
(* C23: per transport read at most one continuation chain is started: only *)
(* the first event of the batch that is addressed to the bot is turned     *)
(* into the one message, channel and author the loop holds, and every      *)
(* later event of the batch is discarded: what the read yields is what the *)
(* read of that first event alone yields.  run() keeps of a read nothing   *)
(* but this triple, so a discarded event cannot reach a later poll.        *)
(***************************************************************************)
C23_FirstEventOnly ==
    pc = "return" /\ call.fn = "parse_slack_output"
    => LET b == call.args[1]
           R == call.ret
       IN  IF AddressedAt(b) = {}
           THEN R = <<None, None, None>>
           ELSE LET first == FirstAddressed(b)
                IN  /\ R[3] = Str(b[first].user)
                    /\ R[2] = Str(b[first].channel)
                    /\ R = parse_slack_output(<<b[first]>>)
                    /\ R = parse_slack_output(SubSeq(b, 1, first))

\* a batch of two events addressed to the bot has been parsed: the message
\* is the first one's, of the second nothing is left
C23_Witness ==
    /\ pc = "return"
    /\ call.fn = "parse_slack_output"
    /\ call.args[1] = <<EvDirect, EvMention>>
    /\ call.ret = <<Str("ok"), Str(EvDirect.channel), Str(EvDirect.user)>>

====
